---- MODULE Spec2Model ----
(***************************************************************************)
(* A model of libki's pclass core: the type-erased Value and the           *)
(* ValueCaster registry (ki/pclass/Value.h), the Type / IClassType         *)
(* descriptors (Type.cpp, ClassType.cpp), the primitive codecs and the     *)
(* BinarySerializer (BinarySerializer.h).                                  *)
(***************************************************************************)
EXTENDS Integers, Sequences, FiniteSets, TLC

VARIABLES
    s_caster_lookup,  \* ValueCaster::s_caster_lookup: null, or SrcT hash -> ValueCaster
    values,           \* the Value instances alive in the program, by slot
    heap,             \* the storage locations Values point to
    released,         \* history: slots whose release<T>() succeeded
    vlast,            \* the last Value / ValueCaster call and how it ended
    types,            \* the Type descriptors constructed so far
    tlast,            \* the last Type call and how it ended
    ser,              \* the BinarySerializer: m_is_file, m_flags
    object,           \* the object handed to save
    stream,           \* the BitStream: the bits written
    dest,             \* load's destination (std::unique_ptr<PropertyClass>)
    slast             \* the last serializer call and how it ended

vars == <<s_caster_lookup, values, heap, released, vlast,
          types, tlast, ser, object, stream, dest, slast>>

valueVars == <<s_caster_lookup, values, heap, released, vlast>>
typeVars == <<types, tlast>>
serVars == <<ser, object, stream, dest, slast>>

NULL == 0

-----------------------------------------------------------------------------
(***************************************************************************)
(* Value and ValueCaster (ki/pclass/Value.h)                               *)
(***************************************************************************)

\* Bounds of the Value model.
MaxValues == 1

Slots == 1..MaxValues
\* Storage locations: one per Value the program can hold.
Ptrs == 1..MaxValues

\* Where the Value a call returns keeps its copy until the statement ends.
TempPtr == MaxValues + 1

\* The C++ types Values hold in the model.
CppTypes == {"int", "string"}

\* typeid(T).hash_code(): one number per type.
hash_code(T) ==
    CASE T = "int" -> 202
      [] T = "string" -> 303

TypeHashes == {hash_code(T) : T \in CppTypes}

TypeOfHash(h) == CHOOSE T \in CppTypes : hash_code(T) = h

\* The values of each type the model draws from.
DataOf(T) ==
    CASE T = "int" -> {2}
      [] T = "string" -> {"2"}

\* operator<< of an integer into a std::ostringstream.
ostream_put(x) ==
    CASE x = 0 -> "0"
      [] x = 2 -> "2"

\* The pairs value_caster<SrcT, DestT> compiles for: static_cast from a type to
\* itself, and everything to std::string through an ostringstream.
Castable(S, D) == D = "string" \/ S # "string"

\* value_caster<SrcT, DestT>::cast_value, and the std::string specialisation.
caster_cast_value(S, D, x) ==
    IF D = "string" /\ S # "string" THEN ostream_put(x) ELSE x

NoValue == [live |-> FALSE]

\* Value::Value(void *value_ptr, bool owned) followed by set_type<T>().
NewValue(ptr, owned, T) ==
    [live |-> TRUE,
     m_value_ptr |-> ptr,
     m_ptr_is_owned |-> owned,
     m_type_hash |-> hash_code(T),
     m_caster |-> hash_code(T),
     m_deallocator |-> hash_code(T)]

FreeBlock == [state |-> "free"]

LiveBlock(T, x, by) == [state |-> "live", type |-> hash_code(T), data |-> x, owner |-> by]

\* s_caster_lookup before any ValueCaster::get<SrcT>() ran: a null pointer.
NoRegistry == [null |-> TRUE, map |-> << >>]

\* ValueCaster::get<SrcT>(): creates the registry and SrcT's table on demand.
ValueCaster_get(lookup, S) ==
    LET h == hash_code(S)
    IN IF h \in DOMAIN lookup.map THEN lookup
       ELSE [null |-> FALSE,
             map |-> [k \in DOMAIN lookup.map \cup {h} |->
                        IF k = h THEN [m_src_type |-> S, m_casts |-> << >>, live |-> 0]
                        ELSE lookup.map[k]]]

AddCasterWipesTable(caster, S, D) ==
    [caster EXCEPT !.m_casts = [k \in {hash_code(D)} |-> [SrcT |-> S, DestT |-> D]],
                   !.live = 1]

\* ValueCaster::add_caster<SrcT, DestT>(): one caster per DestT, the old one
\* deleted. live counts the value_caster objects the table has allocated and
\* not deleted.
add_caster(caster, S, D) ==
    LET h == hash_code(D)
    IN [caster EXCEPT !.m_casts =
            [k \in DOMAIN caster.m_casts \cup {h} |->
                IF k = h THEN [SrcT |-> S, DestT |-> D] ELSE caster.m_casts[k]],
                      !.live = (IF h \in DOMAIN caster.m_casts THEN @ - 1 ELSE @) + 1]

\* ValueCaster::declare<SrcT, DestT>().
ValueCaster_declare(lookup, S, D) ==
    LET reg == ValueCaster_get(lookup, S)
    IN [reg EXCEPT !.map[hash_code(S)] = add_caster(reg.map[hash_code(S)], S, D)]

\* Value::is<T>().
Value_is(v, T) == v.m_type_hash = hash_code(T)

\* Value::is_reference().
Value_is_reference(v) == ~v.m_ptr_is_owned

\* Value::get<T>(): the Value after the call, the outcome and the pointer returned.
GetFlipsOwnership(v, T) ==
    IF ~Value_is(v, T)
    THEN [self |-> v, res |-> "runtime_error", ret |-> NULL]
    ELSE [self |-> [v EXCEPT !.m_ptr_is_owned = FALSE], res |-> "ok", ret |-> v.m_value_ptr]

Value_get(v, T) ==
    IF ~Value_is(v, T)
    THEN [self |-> v, res |-> "runtime_error", ret |-> NULL]
    ELSE [self |-> v, res |-> "ok", ret |-> v.m_value_ptr]

\* What release<T>() throws: the runtime_error and its message.
ReleaseThrows(v, what) == [self |-> v, res |-> "runtime_error", ret |-> NULL, what |-> <<what>>]

ReleaseKeepsOwnership(v, T) ==
    IF Value_is_reference(v)
    THEN ReleaseThrows(v, "Cannot release ownership from a reference Value.")
    ELSE IF ~Value_is(v, T) THEN ReleaseThrows(v, "Invalid call to Value::get<T>.")
    ELSE [self |-> v, res |-> "ok", ret |-> v.m_value_ptr, what |-> << >>]

ReleaseGivesUpBeforeTypeCheck(v, T) ==
    IF Value_is_reference(v)
    THEN ReleaseThrows(v, "Cannot release ownership from a reference Value.")
    ELSE IF ~Value_is(v, T)
    THEN ReleaseThrows([v EXCEPT !.m_ptr_is_owned = FALSE], "Invalid call to Value::get<T>.")
    ELSE [self |-> [v EXCEPT !.m_ptr_is_owned = FALSE], res |-> "ok", ret |-> v.m_value_ptr,
          what |-> << >>]

\* Value::release<T>().
Value_release(v, T) ==
    IF Value_is_reference(v)
    THEN ReleaseThrows(v, "Cannot release ownership from a reference Value.")
    ELSE IF ~Value_is(v, T) THEN ReleaseThrows(v, "Invalid call to Value::get<T>.")
    ELSE [self |-> [v EXCEPT !.m_ptr_is_owned = FALSE], res |-> "ok", ret |-> v.m_value_ptr,
          what |-> << >>]

\* new T(value): the lowest unused storage location.
HasFree(hp) == \E p \in DOMAIN hp : hp[p].state = "free"

AllocPtr(hp) == CHOOSE p \in DOMAIN hp : hp[p].state = "free" /\ \A q \in 1..(p - 1) : hp[q].state # "free"

\* Value::make_value<T>(value): owned storage holding a copy, then set_type<T>().
Value_make_value(T, x, p, lookup) ==
    [val |-> NewValue(p, TRUE, T),
     block |-> LiveBlock(T, x, "value"),
     lookup |-> ValueCaster_get(lookup, T)]

MakeReferenceOwns(T, p, lookup) ==
    [val |-> NewValue(p, TRUE, T), lookup |-> ValueCaster_get(lookup, T)]

\* Value::make_reference<T>(value): borrows the location, then set_type<T>().
Value_make_reference(T, p, lookup) ==
    [val |-> NewValue(p, FALSE, T), lookup |-> ValueCaster_get(lookup, T)]

\* What *static_cast<T *>(ptr) reads: the stored value, or anything of type T
\* when the storage has been deleted (a dangling reference).
ReadData(hp, p, T) ==
    IF hp[p].state = "live" /\ hp[p].type = hash_code(T) THEN {hp[p].data} ELSE DataOf(T)

Failed(kind, e) == [res |-> kind, err |-> e]

\* value_caster_impl<SrcT, DestT>::cast: make_value<DestT>(cast_value(value.get<SrcT>())).
value_caster_impl_cast(c, v, x, p, lookup) ==
    IF Value_get(v, c.SrcT).res # "ok" THEN Failed("runtime_error", << >>)
    ELSE [res |-> "ok", err |-> << >>,
          new |-> Value_make_value(c.DestT, caster_cast_value(c.SrcT, c.DestT, x), p, lookup)]

CastValueGenericFailure(caster, D, v, x, p, lookup) ==
    IF hash_code(D) \in DOMAIN caster.m_casts
    THEN value_caster_impl_cast(caster.m_casts[hash_code(D)], v, x, p, lookup)
    ELSE Failed("runtime_error", << >>)

\* ValueCaster::cast_value<DestT>(value) of the table `caster`.
ValueCaster_cast_value(caster, D, v, x, p, lookup) ==
    IF hash_code(D) \in DOMAIN caster.m_casts
    THEN value_caster_impl_cast(caster.m_casts[hash_code(D)], v, x, p, lookup)
    ELSE Failed("cast_error", <<caster.m_src_type, D>>)

\* ValueCaster::cast<DestT>(src_type, value). s_caster_lookup is dereferenced
\* unchecked: with no registry the call is undefined.
ValueCaster_cast(S, D, v, x, p, lookup) ==
    IF lookup.null THEN Failed("undefined", << >>)
    ELSE IF hash_code(S) \in DOMAIN lookup.map
    THEN ValueCaster_cast_value(lookup.map[hash_code(S)], D, v, x, p, lookup)
    ELSE Failed("cast_error", <<S, D>>)

\* Value::as<T>(): a copy when the type is held, the held type's caster otherwise.
Value_as(v, D, x, p, lookup) ==
    IF ~Value_is(v, D)
    THEN ValueCaster_cast_value(lookup.map[v.m_caster], D, v, x, p, lookup)
    ELSE [res |-> "ok", err |-> << >>, new |-> Value_make_value(D, x, p, lookup)]

DereferenceGivesReference(v, T, x, p, lookup) ==
    IF ~Value_is(v, T) THEN Failed("runtime_error", << >>)
    ELSE [res |-> "ok", err |-> << >>,
          new |-> [val |-> NewValue(v.m_value_ptr, FALSE, T),
                   block |-> LiveBlock(T, x, "value"),
                   lookup |-> ValueCaster_get(lookup, T)]]

\* Value::dereference<T>().
Value_dereference(v, T, x, p, lookup) ==
    IF ~Value_is(v, T) THEN Failed("runtime_error", << >>)
    ELSE [res |-> "ok", err |-> << >>, new |-> Value_make_value(T, x, p, lookup)]

\* The registered (SrcT, DestT) pairs.
Registered(lookup) ==
    {<<S, D>> \in CppTypes \X CppTypes :
        /\ hash_code(S) \in DOMAIN lookup.map
        /\ hash_code(D) \in DOMAIN lookup.map[hash_code(S)].m_casts}

Call(op, slot, S, T, res, err, ret) ==
    [op |-> op, slot |-> slot, S |-> S, T |-> T, res |-> res, err |-> err, ret |-> ret]

\* What a call returned: nothing, or a Value (its ownership flag, type and content).
Nothing == [given |-> FALSE]

\* What declare reports: whether add_caster deleted a caster it replaced.
Deleted(old) == [given |-> FALSE, deleted |-> old]

Given(new) ==
    [given |-> TRUE,
     m_ptr_is_owned |-> new.val.m_ptr_is_owned,
     m_type_hash |-> new.val.m_type_hash,
     data |-> new.block.data]

FreeSlot(vs) == CHOOSE s \in DOMAIN vs : ~vs[s].live /\ \A q \in 1..(s - 1) : vs[q].live

\* The parts of the state the other components own, left idle.
IdleValue ==
    /\ s_caster_lookup = NoRegistry
    /\ values = << >>
    /\ heap = << >>
    /\ released = {}
    /\ vlast = [op |-> "none"]

IdleType == types = << >> /\ tlast = [op |-> "none"]

IdleSer == ser = [idle |-> TRUE] /\ object = NULL /\ stream = << >> /\ dest = NULL /\ slast = [op |-> "none"]

\* Process start: no registry, no Value.
InitValue ==
    /\ s_caster_lookup = NoRegistry
    /\ values = [s \in Slots |-> NoValue]
    /\ heap = [p \in Ptrs |-> FreeBlock]
    /\ released = {}
    /\ vlast = Call("none", 0, "", "", "ok", << >>, Nothing)
    /\ IdleType
    /\ IdleSer

\* ValueCaster::declare<SrcT, DestT>() at start-up.
Declare(S, D) ==
    /\ UNCHANGED <<typeVars, serVars>>
    /\ Castable(S, D)
    /\ s_caster_lookup' = ValueCaster_declare(s_caster_lookup, S, D)
    /\ vlast' = Call("declare", 0, S, D, "ok", << >>,
                     Deleted(<<S, D>> \in Registered(s_caster_lookup)))
    /\ UNCHANGED <<values, heap, released>>

\* Value v = Value::make_value<T>(x).
MakeValue(T, x) ==
    /\ UNCHANGED <<typeVars, serVars>>
    /\ \E s \in DOMAIN values : ~values[s].live
    /\ HasFree(heap)
    /\ LET r == Value_make_value(T, x, AllocPtr(heap), s_caster_lookup)
           s == FreeSlot(values)
       IN /\ values' = [values EXCEPT ![s] = r.val]
          /\ heap' = [heap EXCEPT ![r.val.m_value_ptr] = r.block]
          /\ s_caster_lookup' = r.lookup
          /\ vlast' = Call("make_value", s, "", "", "ok", << >>, Nothing)
    /\ UNCHANGED released

\* Value v = Value::make_reference<T>(x), x a variable of the caller (a new
\* location) or the storage another Value holds.
MakeReference(T, p, x) ==
    /\ UNCHANGED <<typeVars, serVars>>
    /\ \E s \in DOMAIN values : ~values[s].live
    /\ \/ heap[p].state = "free" /\ p = AllocPtr(heap)
       \/ heap[p].state = "live" /\ heap[p].type = hash_code(T) /\ x = heap[p].data
    /\ LET r == Value_make_reference(T, p, s_caster_lookup)
           s == FreeSlot(values)
       IN /\ values' = [values EXCEPT ![s] = r.val]
          /\ s_caster_lookup' = r.lookup
          /\ vlast' = Call("make_reference", s, "", "", "ok", << >>, Nothing)
    /\ heap' = IF heap[p].state = "free" THEN [heap EXCEPT ![p] = LiveBlock(T, x, "caller")] ELSE heap
    /\ UNCHANGED released

\* v.is<T>().
Is(s, T) ==
    /\ UNCHANGED <<typeVars, serVars>>
    /\ values[s].live
    /\ vlast' = Call("is", s, "", T, IF Value_is(values[s], T) THEN "true" ELSE "false", << >>, Nothing)
    /\ UNCHANGED <<s_caster_lookup, values, heap, released>>

\* v.get<T>().
Get(s, T) ==
    /\ UNCHANGED <<typeVars, serVars>>
    /\ values[s].live
    /\ LET r == Value_get(values[s], T)
       IN /\ values' = [values EXCEPT ![s] = r.self]
          /\ vlast' = Call("get", s, "", T, r.res, << >>, Nothing)
    /\ UNCHANGED <<s_caster_lookup, heap, released>>

\* v.release<T>(): the caller takes the pointer.
Release(s, T) ==
    /\ UNCHANGED <<typeVars, serVars>>
    /\ values[s].live
    /\ LET r == Value_release(values[s], T)
       IN /\ values' = [values EXCEPT ![s] = r.self]
          /\ vlast' = Call("release", s, "", T, r.res, r.what, Nothing)
          /\ released' = IF r.res = "ok" THEN released \cup {s} ELSE released
          /\ heap' = IF r.res = "ok"
                     THEN [heap EXCEPT ![r.ret].owner = "caller"]
                     ELSE heap
    /\ UNCHANGED s_caster_lookup

\* The outcome r of a call that returns a new Value. The Value returned is a
\* temporary: it is destroyed, and its storage deallocated, when the statement ends.
Returned(op, s, S, T, r) ==
    /\ UNCHANGED <<values, heap>>
    /\ IF r.res = "ok"
       THEN /\ s_caster_lookup' = r.new.lookup
            /\ vlast' = Call(op, s, S, T, "ok", << >>, Given(r.new))
       ELSE /\ vlast' = Call(op, s, S, T, r.res, r.err, Nothing)
            /\ UNCHANGED s_caster_lookup

\* Value w = v.as<T>().
As(s, T) ==
    /\ UNCHANGED <<typeVars, serVars>>
    /\ values[s].live
    /\ \E x \in ReadData(heap, values[s].m_value_ptr, TypeOfHash(values[s].m_type_hash)) :
          Returned("as", s, "", T, Value_as(values[s], T, x, TempPtr, s_caster_lookup))
    /\ UNCHANGED released

\* Value w = v.dereference<T>().
Dereference(s, T) ==
    /\ UNCHANGED <<typeVars, serVars>>
    /\ values[s].live
    /\ \E x \in ReadData(heap, values[s].m_value_ptr, TypeOfHash(values[s].m_type_hash)) :
          Returned("dereference", s, "", T, Value_dereference(values[s], T, x, TempPtr, s_caster_lookup))
    /\ UNCHANGED released

\* Value w = ValueCaster::cast<DestT>(typeid(SrcT), v).
Cast(S, D, s) ==
    /\ UNCHANGED <<typeVars, serVars>>
    /\ values[s].live
    /\ \E x \in ReadData(heap, values[s].m_value_ptr, TypeOfHash(values[s].m_type_hash)) :
          Returned("cast", s, S, D, ValueCaster_cast(S, D, values[s], x, TempPtr, s_caster_lookup))
    /\ UNCHANGED released

\* v goes out of scope: Value::~Value() deallocates the storage it owns.
Value_destroy(v, hp) ==
    IF v.m_ptr_is_owned THEN [hp EXCEPT ![v.m_value_ptr] = FreeBlock] ELSE hp

Destroy(s) ==
    /\ UNCHANGED <<typeVars, serVars>>
    /\ values[s].live
    /\ heap' = Value_destroy(values[s], heap)
    /\ values' = [values EXCEPT ![s] = NoValue]
    /\ released' = released \ {s}
    /\ vlast' = Call("destroy", s, "", "", "ok", << >>, Nothing)
    /\ UNCHANGED s_caster_lookup

\* The caller deletes a pointer release<T>() gave it, or a variable of the
\* caller that a Value may still refer to goes out of scope.
CallerDelete(p) ==
    /\ UNCHANGED <<typeVars, serVars>>
    /\ heap[p].state = "live"
    /\ heap[p].owner = "caller"
    /\ heap' = [heap EXCEPT ![p] = FreeBlock]
    /\ vlast' = Call("delete", 0, "", "", "ok", << >>, Nothing)
    /\ UNCHANGED <<s_caster_lookup, values, released>>

NextValue ==
    \/ \E S \in CppTypes, D \in CppTypes : Declare(S, D)
    \/ \E T \in CppTypes : \E x \in DataOf(T) : MakeValue(T, x)
    \/ \E T \in CppTypes, p \in Ptrs : \E x \in DataOf(T) : MakeReference(T, p, x)
    \/ \E s \in Slots, T \in CppTypes : Is(s, T)
    \/ \E s \in Slots, T \in CppTypes : Get(s, T)
    \/ \E s \in Slots, T \in CppTypes : Release(s, T)
    \/ \E s \in Slots, T \in CppTypes : As(s, T)
    \/ \E s \in Slots, T \in CppTypes : Dereference(s, T)
    \/ \E s \in Slots, S \in CppTypes, D \in CppTypes : Cast(S, D, s)
    \/ \E s \in Slots : Destroy(s)
    \/ \E p \in Ptrs : CallerDelete(p)

SpecValue == InitValue /\ [][NextValue]_vars

-----------------------------------------------------------------------------
(***************************************************************************)
(* Properties of Value and ValueCaster                                     *)
(***************************************************************************)

HeldType(s) == TypeOfHash(values[s].m_type_hash)

\* C2: a release<T>() on a Value that owns its storage and holds T succeeds
\* and leaves the Value a reference; from then on, through any get, is, as and
\* dereference calls, the Value stays a reference and every further
\* release<T>() on it fails with an error.
C2_ReleaseOnce ==
    /\ [](\A s \in released : values[s].live /\ Value_is_reference(values[s]))
    /\ [][vlast'.op = "release" =>
            LET s == vlast'.slot
                T == vlast'.T
            IN /\ (values[s].m_ptr_is_owned /\ Value_is(values[s], T)) =>
                    /\ vlast'.res = "ok"
                    /\ Value_is_reference(values'[s])
                    /\ s \in released'
               /\ s \in released => vlast'.res = "runtime_error" /\ s \in released'
         ]_vars
    /\ [][vlast'.op \in {"get", "is", "as", "dereference"} => released' = released]_vars

\* A second release<T>() has just failed on a Value whose first one succeeded.
C2_Witness ==
    /\ vlast.op = "release"
    /\ vlast.res = "runtime_error"
    /\ vlast.slot \in released
    /\ Value_is(values[vlast.slot], vlast.T)

\* C3: get<T>() leaves the Value's ownership flag, held type and storage
\* location as they were, whether it returns or fails with a wrong-type error.
C3_GetKeepsOwnership ==
    [][vlast'.op = "get" =>
        LET s == vlast'.slot
        IN /\ values'[s].m_ptr_is_owned = values[s].m_ptr_is_owned
           /\ values'[s].m_type_hash = values[s].m_type_hash
           /\ values'[s].m_value_ptr = values[s].m_value_ptr
           /\ vlast'.res = IF Value_is(values[s], vlast'.T) THEN "ok" ELSE "runtime_error"
      ]_vars

\* A get<T>() of the held type has just returned on a Value that owns its storage.
C3_Witness ==
    /\ vlast.op = "get"
    /\ vlast.res = "ok"
    /\ values[vlast.slot].m_ptr_is_owned

CastError(S, D) == vlast.res = "cast_error" /\ vlast.err = <<S, D>>

\* C4 as stated: with no (S, D) caster registered, as<D>() on a Value
\* holding S and cast<D>(typeid(S), value) both end with a cast_error carrying
\* S and D.
C4_Original ==
    /\ (vlast.op = "as" /\ <<HeldType(vlast.slot), vlast.T>> \notin Registered(s_caster_lookup))
            => CastError(HeldType(vlast.slot), vlast.T)
    /\ (vlast.op = "cast" /\ <<vlast.S, vlast.T>> \notin Registered(s_caster_lookup))
            => CastError(vlast.S, vlast.T)

\* C4, amended: with no (S, D) caster registered, cast<D>(typeid(S), value)
\* ends with a cast_error carrying S and D, and so does as<D>() on a Value
\* holding S when D differs from S (as<S>() on a Value holding S needs no
\* caster and returns an owning copy); no call ends undefined for want of a
\* registry or of a table.
C4_UnregisteredCastFails ==
    /\ (vlast.op = "as" /\ HeldType(vlast.slot) # vlast.T
            /\ <<HeldType(vlast.slot), vlast.T>> \notin Registered(s_caster_lookup))
            => CastError(HeldType(vlast.slot), vlast.T)
    /\ (vlast.op = "as" /\ HeldType(vlast.slot) = vlast.T)
            => vlast.res = "ok" /\ vlast.ret.given /\ vlast.ret.m_ptr_is_owned
    /\ (vlast.op = "cast" /\ <<vlast.S, vlast.T>> \notin Registered(s_caster_lookup))
            => CastError(vlast.S, vlast.T)
    /\ vlast.res # "undefined"

\* cast<D>(typeid(S), value) has just failed with a cast_error while S has no
\* table in the registry.
C4_Witness ==
    /\ vlast.op = "cast"
    /\ CastError(vlast.S, vlast.T)
    /\ hash_code(vlast.S) \notin DOMAIN s_caster_lookup.map

\* The casters a table holds are the value_caster<SrcT, DestT> of its own
\* source type, filed under DestT's hash, and are all the casters it keeps alive.
TableWellFormed(caster) ==
    /\ caster.live = Cardinality(DOMAIN caster.m_casts)
    /\ \A d \in DOMAIN caster.m_casts :
          /\ hash_code(caster.m_casts[d].DestT) = d
          /\ caster.m_casts[d].SrcT = caster.m_src_type

CasterOf(lookup, pair) == lookup.map[hash_code(pair[1])].m_casts[hash_code(pair[2])]

\* C12: after any declare<Src, Dest>() calls every source type's table keeps
\* exactly one conversion function alive per destination type it lists, and
\* a declare<S, D>() registers (S, D), deleting the function it replaces when
\* the pair was registered, and leaves every other pair's entry as it was.
C12_OneCasterPerPair ==
    /\ [](\A h \in DOMAIN s_caster_lookup.map : TableWellFormed(s_caster_lookup.map[h]))
    /\ [][vlast'.op = "declare" =>
            LET pair == <<vlast'.S, vlast'.T>>
            IN /\ Registered(s_caster_lookup') = Registered(s_caster_lookup) \cup {pair}
               /\ CasterOf(s_caster_lookup', pair) = [SrcT |-> pair[1], DestT |-> pair[2]]
               /\ vlast'.ret.deleted = (pair \in Registered(s_caster_lookup))
               /\ \A other \in Registered(s_caster_lookup) \ {pair} :
                     CasterOf(s_caster_lookup', other) = CasterOf(s_caster_lookup, other)
         ]_vars

\* A pair has just been declared again while its table holds another pair too.
C12_Witness ==
    /\ vlast.op = "declare"
    /\ vlast.ret.deleted
    /\ Cardinality({pair \in Registered(s_caster_lookup) : pair[1] = vlast.S}) = 2

\* The value the storage of slot s holds, when it has not been deleted.
StoredIn(s) == heap[values[s].m_value_ptr].data

Dangling(s) == heap[values[s].m_value_ptr].state # "live"

\* C14: as<T>() succeeds exactly when the held type is T or a caster from
\* the held type to T is registered, dereference<T>() exactly when the held
\* type is T (it throws otherwise); what either returns is a Value that owns
\* its storage and holds a T made from the held value, and the source
\* Value's ownership flag, type and storage are as before the call.
C14_NewOwningValue ==
    [][vlast'.op \in {"as", "dereference"} =>
        LET s == vlast'.slot
            T == vlast'.T
            held == HeldType(s)
            succeeds == \/ held = T
                        \/ vlast'.op = "as" /\ <<held, T>> \in Registered(s_caster_lookup)
        IN /\ values' = values
           /\ heap' = heap
           /\ vlast'.res = "ok" <=> succeeds
           /\ (vlast'.op = "dereference" /\ ~succeeds) => vlast'.res = "runtime_error"
           /\ succeeds =>
                /\ vlast'.ret.given
                /\ vlast'.ret.m_ptr_is_owned
                /\ vlast'.ret.m_type_hash = hash_code(T)
                /\ ~Dangling(s) => vlast'.ret.data = caster_cast_value(held, T, StoredIn(s))
      ]_vars

\* as<std::string>() has just converted the int a referencing Value points to.
C14_Witness ==
    /\ vlast.op = "as"
    /\ vlast.res = "ok"
    /\ HeldType(vlast.slot) = "int"
    /\ vlast.T = "string"
    /\ Value_is_reference(values[vlast.slot])
    /\ vlast.ret.m_ptr_is_owned
    /\ vlast.ret.data = "2"

\* C16: release<T>() throws when the Value is a reference, which it tests
\* first, and when the held type is not T; a release that throws leaves the
\* Value and its storage as they were, so a Value that owned its storage
\* still owns it, the storage is live, and destroying the Value releases it.
C16_FailedReleaseKeepsState ==
    /\ [][vlast'.op = "release" =>
            LET v == values[vlast'.slot]
            IN IF Value_is_reference(v)
               THEN /\ vlast'.res = "runtime_error"
                    /\ vlast'.err = <<"Cannot release ownership from a reference Value.">>
                    /\ values' = values /\ heap' = heap
               ELSE IF ~Value_is(v, vlast'.T)
               THEN /\ vlast'.res = "runtime_error"
                    /\ vlast'.err = <<"Invalid call to Value::get<T>.">>
                    /\ values' = values /\ heap' = heap
                    /\ values'[vlast'.slot].m_ptr_is_owned
                    /\ heap'[v.m_value_ptr] = LiveBlock(HeldType(vlast'.slot),
                                                        heap[v.m_value_ptr].data, "value")
               ELSE vlast'.res = "ok"
         ]_vars
    /\ [][(vlast'.op = "destroy" /\ values[vlast'.slot].m_ptr_is_owned)
            => /\ heap[values[vlast'.slot].m_value_ptr].state = "live"
               /\ heap'[values[vlast'.slot].m_value_ptr].state = "free"]_vars

\* release<T>() of a type the Value does not hold has just failed on a Value
\* that owns its storage.
C16_Witness ==
    /\ vlast.op = "release"
    /\ vlast.res = "runtime_error"
    /\ ~Value_is(values[vlast.slot], vlast.T)
    /\ values[vlast.slot].m_ptr_is_owned
    /\ heap[values[vlast.slot].m_value_ptr].state = "live"

-----------------------------------------------------------------------------
(***************************************************************************)
(* Type descriptors (Type.cpp, ClassType.cpp)                              *)
(***************************************************************************)

\* The number of descriptors the model constructs.
MaxTypes == 3

\* A descriptor is known by its place in `types` (its address); NULL is no
\* descriptor.
TypeIds == 1..Len(types)

\* The name given to the n-th descriptor constructed.
NameOf(n) ==
    CASE n = 1 -> "T1"
      [] n = 2 -> "T2"
      [] n = 3 -> "T3"
      [] n = 4 -> "T4"
      [] OTHER -> "T5"

\* HashCalculator::calculate_type_hash(name): one hash per name.
calculate_type_hash(name) ==
    CASE name = "T1" -> 1001
      [] name = "T2" -> 1002
      [] name = "T3" -> 1003
      [] name = "T4" -> 1004
      [] name = "T5" -> 1005
      [] name = "bui2" -> 2001
      [] name = "u8" -> 2002
      [] name = "X" -> 3001
      [] name = "Y" -> 3002
      [] name = "Z" -> 3003
      [] name = "W" -> 3004

\* Type::Type(name, type_system): kind NONE, hash computed from the name.
Type_Type(name) ==
    [m_name |-> name,
     m_hash |-> calculate_type_hash(name),
     m_kind |-> "NONE",
     m_base_class |-> NULL,
     is_IClassType |-> FALSE]

\* PrimitiveType<ValueT>: a Type whose kind is PRIMITIVE.
PrimitiveType(name) == [Type_Type(name) EXCEPT !.m_kind = "PRIMITIVE"]

\* dynamic_cast<const IClassType *>(type): NULL unless the descriptor is one.
dynamic_cast_IClassType(ts, t) == IF ts[t].is_IClassType THEN t ELSE NULL

ClassTypeAcceptsAnyBase(ts, name, base_class) ==
    [res |-> "ok",
     type |-> [Type_Type(name) EXCEPT !.m_kind = "CLASS", !.is_IClassType = TRUE,
                                      !.m_base_class = base_class]]

\* IClassType::IClassType(name, base_class, type_system): the descriptor, or
\* the error thrown.
IClassType_IClassType(ts, name, base_class) ==
    LET made == [Type_Type(name) EXCEPT !.m_kind = "CLASS", !.is_IClassType = TRUE]
    IN IF base_class # NULL
       THEN IF ts[base_class].m_kind # "CLASS"
            THEN [res |-> "runtime_error", what |-> "base_class must be a class type!"]
            ELSE IF dynamic_cast_IClassType(ts, base_class) = NULL
            THEN [res |-> "runtime_error", what |-> "base_class must inherit IClassType!"]
            ELSE [res |-> "ok", type |-> [made EXCEPT !.m_base_class = base_class]]
       ELSE [res |-> "ok", type |-> made]

InheritsDirectBaseOnly(ts, this, type) ==
    IF type = this THEN TRUE
    ELSE IF ts[this].m_base_class # NULL THEN ts[this].m_base_class = type
    ELSE FALSE

\* IClassType::inherits(type) of the descriptor `this`.
RECURSIVE IClassType_inherits(_, _, _)
IClassType_inherits(ts, this, type) ==
    IF type = this THEN TRUE
    ELSE IF ts[this].m_base_class # NULL
    THEN IClassType_inherits(ts, ts[this].m_base_class, type)
    ELSE FALSE

InheritsAsksItself(ts, this, type, fuel) ==
    IF type = this \/ ts[this].m_base_class = NULL
    THEN [returns |-> TRUE, calls |-> 1]
    ELSE [returns |-> FALSE, calls |-> fuel]

\* The calls of IClassType::inherits one call on `this` makes, itself
\* included, until it returns; it is followed for at most `fuel` calls.
RECURSIVE inherits_calls(_, _, _, _)
inherits_calls(ts, this, type, fuel) ==
    IF fuel = 0 THEN [returns |-> FALSE, calls |-> 0]
    ELSE IF type = this THEN [returns |-> TRUE, calls |-> 1]
    ELSE IF ts[this].m_base_class # NULL
    THEN LET r == inherits_calls(ts, ts[this].m_base_class, type, fuel - 1)
         IN [returns |-> r.returns, calls |-> r.calls + 1]
    ELSE [returns |-> TRUE, calls |-> 1]

AssertAlwaysAllowsInheritance(ts, expected, actual, allow_inheritance) ==
    IF ts[expected].m_kind = "CLASS" /\ dynamic_cast_IClassType(ts, actual) = NULL
    THEN "bad_cast"
    ELSE IF ts[expected].m_kind = "CLASS" /\ IClassType_inherits(ts, actual, expected)
    THEN "ok"
    ELSE IF expected = actual THEN "ok"
    ELSE "type_mismatch"

\* assert_type_match(expected, actual, allow_inheritance): "ok" when it
\* returns, "type_mismatch" for the runtime_error it throws, "bad_cast" for
\* the std::bad_cast dynamic_cast<const IClassType &>(actual) throws.
assert_type_match(ts, expected, actual, allow_inheritance) ==
    IF allow_inheritance /\ ts[expected].m_kind = "CLASS"
          /\ dynamic_cast_IClassType(ts, actual) = NULL
    THEN "bad_cast"
    ELSE IF allow_inheritance /\ ts[expected].m_kind = "CLASS"
          /\ IClassType_inherits(ts, actual, expected)
    THEN "ok"
    ELSE IF expected = actual THEN "ok"
    ELSE "type_mismatch"

TypeCall(op, a, b, flag, res) == [op |-> op, a |-> a, b |-> b, flag |-> flag, res |-> res]

\* Schema definition starts with no descriptor.
InitType ==
    /\ types = << >>
    /\ tlast = TypeCall("none", 0, 0, FALSE, "ok")
    /\ IdleValue
    /\ IdleSer

\* A Type of kind NONE is constructed.
NewType ==
    /\ UNCHANGED <<valueVars, serVars>>
    /\ Len(types) < MaxTypes
    /\ types' = Append(types, Type_Type(NameOf(Len(types) + 1)))
    /\ tlast' = TypeCall("Type", Len(types) + 1, 0, FALSE, "ok")

\* A PrimitiveType is constructed.
NewPrimitiveType ==
    /\ UNCHANGED <<valueVars, serVars>>
    /\ Len(types) < MaxTypes
    /\ types' = Append(types, PrimitiveType(NameOf(Len(types) + 1)))
    /\ tlast' = TypeCall("PrimitiveType", Len(types) + 1, 0, FALSE, "ok")

\* An IClassType is constructed with base_class (NULL or a descriptor).
NewClassType(base_class) ==
    /\ UNCHANGED <<valueVars, serVars>>
    /\ LET r == IClassType_IClassType(types, NameOf(Len(types) + 1), base_class)
       IN /\ r.res = "ok" => Len(types) < MaxTypes
          /\ types' = IF r.res = "ok" THEN Append(types, r.type) ELSE types
          /\ tlast' = TypeCall("IClassType", IF r.res = "ok" THEN Len(types) + 1 ELSE 0,
                               base_class, FALSE, r.res)

\* candidate.inherits(ancestor).
Inherits(candidate, ancestor) ==
    /\ UNCHANGED <<valueVars, serVars>>
    /\ types[candidate].is_IClassType
    /\ tlast' = TypeCall("inherits", candidate, ancestor, FALSE,
                         IF IClassType_inherits(types, candidate, ancestor) THEN "true" ELSE "false")
    /\ UNCHANGED types

\* assert_type_match(expected, actual, allow_inheritance).
AssertTypeMatch(expected, actual, allow_inheritance) ==
    /\ UNCHANGED <<valueVars, serVars>>
    /\ tlast' = TypeCall("assert_type_match", expected, actual, allow_inheritance,
                         assert_type_match(types, expected, actual, allow_inheritance))
    /\ UNCHANGED types

NextType ==
    \/ NewType
    \/ NewPrimitiveType
    \/ \E b \in {NULL} \cup TypeIds : NewClassType(b)
    \/ \E c \in TypeIds, a \in TypeIds : Inherits(c, a)
    \/ \E e \in TypeIds, a \in TypeIds, f \in BOOLEAN : AssertTypeMatch(e, a, f)

SpecType == InitType /\ [][NextType]_vars

-----------------------------------------------------------------------------
(***************************************************************************)
(* Properties of the type descriptors                                      *)
(***************************************************************************)

\* The descriptor reached from t by following the base link k times (NULL
\* once the chain has ended).
RECURSIVE BaseAt(_, _, _)
BaseAt(ts, t, k) ==
    IF t = NULL \/ k = 0 THEN t ELSE BaseAt(ts, ts[t].m_base_class, k - 1)

\* t and the descriptors on its base chain.
SelfAndBases(ts, t) == {BaseAt(ts, t, k) : k \in 0..Len(ts)} \ {NULL}

ClassIds == {t \in TypeIds : types[t].is_IClassType}

\* C5: inherits(candidate, ancestor) is true exactly when ancestor is the
\* candidate or is reached by following the candidate's base links; for a
\* type Y whose base is another type X, inherits(Y, X) holds and
\* inherits(X, Y) does not.
C5_Inherits ==
    /\ \A c \in ClassIds, a \in TypeIds :
          IClassType_inherits(types, c, a) <=> a \in SelfAndBases(types, c)
    /\ \A y \in ClassIds :
          LET x == types[y].m_base_class
          IN (x # NULL /\ x # y) =>
                IClassType_inherits(types, y, x) /\ ~IClassType_inherits(types, x, y)
    /\ tlast.op = "inherits" =>
          (tlast.res = "true" <=> tlast.b \in SelfAndBases(types, tlast.a))

\* inherits has just answered true for an ancestor two base links away.
C5_Witness ==
    /\ tlast.op = "inherits"
    /\ tlast.res = "true"
    /\ tlast.b # tlast.a
    /\ tlast.b # types[tlast.a].m_base_class
    /\ \E x \in ClassIds : types[x].m_base_class # NULL
                          /\ ~IClassType_inherits(types, types[x].m_base_class, x)

\* C6: for a class-like X and a different class-like Y with X on its base
\* chain, assert_type_match(X, Y, true) returns and assert_type_match(X, Y,
\* false) fails; for identical descriptors it returns with either setting.
C6_AssertInheritance ==
    /\ \A x \in ClassIds, y \in ClassIds :
          (x # y /\ x \in SelfAndBases(types, y)) =>
              /\ assert_type_match(types, x, y, TRUE) = "ok"
              /\ assert_type_match(types, x, y, FALSE) = "type_mismatch"
    /\ \A t \in TypeIds, f \in BOOLEAN : assert_type_match(types, t, t, f) = "ok"
    /\ (tlast.op = "assert_type_match" /\ tlast.a \in ClassIds /\ tlast.b \in ClassIds
            /\ tlast.a # tlast.b /\ tlast.a \in SelfAndBases(types, tlast.b)) =>
          tlast.res = IF tlast.flag THEN "ok" ELSE "type_mismatch"

\* assert_type_match(X, Y, false) has just failed for a Y derived from X.
C6_Witness ==
    /\ tlast.op = "assert_type_match"
    /\ tlast.a # tlast.b
    /\ tlast.b \in ClassIds
    /\ tlast.a \in SelfAndBases(types, tlast.b)
    /\ ~tlast.flag
    /\ tlast.res = "type_mismatch"

\* C7: assert_type_match returns exactly when actual is expected, or
\* inheritance is allowed, expected is class-like and actual inherits from it;
\* otherwise it raises the type mismatch error, and nothing else.
C7_OnlyTypeMismatch ==
    tlast.op = "assert_type_match" =>
        LET passes == \/ tlast.a = tlast.b
                      \/ /\ tlast.flag
                         /\ types[tlast.a].m_kind = "CLASS"
                         /\ tlast.b \in ClassIds
                         /\ tlast.a \in SelfAndBases(types, tlast.b)
        IN tlast.res = IF passes THEN "ok" ELSE "type_mismatch"

\* A descriptor that can be a class's base: of kind CLASS and an IClassType.
ClassLike(ts, t) == ts[t].m_kind = "CLASS" /\ ts[t].is_IClassType

\* C13: every class-like descriptor has no base or a base that is a
\* class-like descriptor constructed before it; constructing an IClassType
\* with a base whose kind is not CLASS, or that is not an IClassType, throws
\* and adds no descriptor, and with any other base (or none) adds a
\* descriptor of kind CLASS with that base.
C13_BaseIsClass ==
    /\ [](\A t \in ClassIds :
            \/ types[t].m_base_class = NULL
            \/ /\ types[t].m_base_class \in 1..(t - 1)
               /\ ClassLike(types, types[t].m_base_class))
    /\ [][tlast'.op = "IClassType" =>
            LET b == tlast'.b
            IN IF b # NULL /\ ~ClassLike(types, b)
               THEN tlast'.res = "runtime_error" /\ types' = types
               ELSE /\ tlast'.res = "ok"
                    /\ Len(types') = Len(types) + 1
                    /\ SubSeq(types', 1, Len(types)) = types
                    /\ types'[Len(types')].m_kind = "CLASS"
                    /\ types'[Len(types')].m_base_class = b
         ]_vars

\* The construction of a class on a primitive base has just failed, next to a
\* class that has a class as its base.
C13_Witness ==
    /\ tlast.op = "IClassType"
    /\ tlast.res = "runtime_error"
    /\ types[tlast.b].m_kind = "PRIMITIVE"
    /\ \E t \in ClassIds : types[t].m_base_class # NULL

\* The base links between t and the end of its base chain.
ChainLength(ts, t) == Cardinality(SelfAndBases(ts, t)) - 1

\* More calls than any chain of the descriptors constructed can take.
Fuel == Len(types) + 2

\* C18: a descriptor is never changed once constructed and the base of a
\* class is a descriptor constructed before it, so every base chain ends
\* without coming back to a descriptor; inherits(candidate, ancestor)
\* returns, for every candidate and ancestor, after at most one call per
\* descriptor on the candidate's chain: the chain's length plus one.
C18_InheritsTerminates ==
    /\ [][\A t \in TypeIds : t <= Len(types') /\ types'[t] = types[t]]_vars
    /\ [](\A t \in ClassIds :
            /\ types[t].m_base_class \in {NULL} \cup 1..(t - 1)
            /\ BaseAt(types, t, ChainLength(types, t) + 1) = NULL
            /\ \A k \in 0..ChainLength(types, t), j \in 0..ChainLength(types, t) :
                  k # j => BaseAt(types, t, k) # BaseAt(types, t, j))
    /\ [](\A c \in ClassIds, a \in TypeIds :
            LET r == inherits_calls(types, c, a, Fuel)
            IN /\ r.returns
               /\ r.calls <= ChainLength(types, c) + 1
               /\ r.calls >= 1)

\* inherits has just answered for an ancestor at the end of a chain of two
\* base links, after three calls.
C18_Witness ==
    /\ tlast.op = "inherits"
    /\ ChainLength(types, tlast.a) = 2
    /\ tlast.b = BaseAt(types, tlast.a, 2)
    /\ tlast.res = "true"
    /\ inherits_calls(types, tlast.a, tlast.b, Fuel).calls = 3

-----------------------------------------------------------------------------
(***************************************************************************)
(* BinarySerializer (BinarySerializer.h), the codecs of the property       *)
(* types and the schema the serializer runs on                             *)
(***************************************************************************)

\* BinarySerializer::flags.
COMPRESSED == 8

PublicOnlySharesCompressedBit == COMPRESSED

WRITE_PUBLIC_ONLY == 4

FlagsWordSharesPublicOnlyBit == WRITE_PUBLIC_ONLY

WRITE_SERIALIZER_FLAGS == 1

\* Every combination of the three flags.
FlagSets ==
    {a + b + c : a \in {0, WRITE_SERIALIZER_FLAGS}, b \in {0, WRITE_PUBLIC_ONLY},
                 c \in {0, COMPRESSED}}

\* FLAG_IS_SET(flags, f), f one bit.
FlagIsSet(flags, f) == (flags \div f) % 2 = 1

\* BitStream::write<T>(value, bits): the low `bits` bits, lowest first.
RECURSIVE ToBits(_, _)
ToBits(v, w) == IF w = 0 THEN << >> ELSE <<v % 2>> \o ToBits(v \div 2, w - 1)

\* The number BitStream::read<T>(bits) makes of the bits it reads.
RECURSIVE FromBits(_)
FromBits(b) == IF b = << >> THEN 0 ELSE b[1] + 2 * FromBits(Tail(b))

\* BitStream::read<T>(w) at position pos: the value and the new position, or
\* no value when fewer than w bits are left.
BitStream_read(bits, pos, w) ==
    IF pos + w > Len(bits) THEN [ok |-> FALSE, pos |-> pos]
    ELSE [ok |-> TRUE, value |-> FromBits(SubSeq(bits, pos + 1, pos + w)), pos |-> pos + w]

\* The width of the unsigned 32-bit words of the format.
U32 == 32

\* The schema of the model: two integral primitive types, bui<2> and uint8_t,
\* a class X, a class Y derived from X, and a class Z holding a pointer to an X.
Schema ==
    LET t1 == <<PrimitiveType("bui2"), PrimitiveType("u8")>>
        t2 == Append(t1, IClassType_IClassType(t1, "X", NULL).type)
        t3 == Append(t2, IClassType_IClassType(t2, "Y", Len(t2)).type)
    IN Append(t3, IClassType_IClassType(t3, "Z", NULL).type)

\* TypeSystem::get_type(name).
TypeNamed(ts, name) == CHOOSE t \in 1..Len(ts) : ts[t].m_name = name

\* bitsizeof<ValueT>::value of the integral types.
bitsizeof(name) ==
    CASE name = "bui2" -> 2
      [] name = "u8" -> 8
      [] name = "i8" -> 8

\* std::is_signed<ValueT>.
is_signed(name) == name = "i8"

\* The ValueT that read<ValueT>(w) returns for the w bits it read: the number
\* with that bit pattern, negative for a signed ValueT with the top bit set.
AsValueT(name, raw) ==
    IF is_signed(name) /\ raw >= 2 ^ (bitsizeof(name) - 1)
    THEN raw - 2 ^ bitsizeof(name)
    ELSE raw

\* The values of the integral types the model draws from.
ValuesOf(name) ==
    CASE name = "bui2" -> {0, 3}
      [] name = "u8" -> {0, 200}

Decl(name, type, public) == [name |-> name, type |-> type, public |-> public]

\* The properties each class declares, in declaration order (a derived class
\* starts with its base's).
ClassProperties(name) ==
    CASE name = "X" -> <<Decl("a", "bui2", TRUE), Decl("b", "u8", FALSE)>>
      [] name = "Y" -> <<Decl("a", "bui2", TRUE), Decl("b", "u8", FALSE), Decl("c", "u8", TRUE)>>
      [] name = "Z" -> <<Decl("p", "X", TRUE), Decl("q", "bui2", FALSE)>>
      [] OTHER -> << >>

\* A null PropertyClass pointer.
NullObject == [type |-> NULL, props |-> << >>]

IsClassName(ts, name) == ts[TypeNamed(ts, name)].m_kind = "CLASS"

\* The state of a property of a newly constructed object.
DefaultOf(ts, decl) == IF IsClassName(ts, decl.type) THEN NullObject ELSE 0

\* A newly constructed object of the class t.
NewObject(ts, t) ==
    LET decls == ClassProperties(ts[t].m_name)
    IN [type |-> t, props |-> [i \in 1..Len(decls) |-> DefaultOf(ts, decls[i])]]

InstantiateAnything(ts, t) == [res |-> "ok", obj |-> NewObject(ts, t)]

\* Type::instantiate(): a class type makes an object, the base Type throws.
Type_instantiate(ts, t) ==
    IF ts[t].is_IClassType
    THEN [res |-> "ok", obj |-> NewObject(ts, t)]
    ELSE [res |-> "runtime_error", what |-> "does not implement Type::instantiate"]

\* TypeSystem::instantiate(hash): the unknown type error when no class-like
\* descriptor owns the hash.
TypeSystem_instantiate(ts, hash) ==
    IF \E t \in 1..Len(ts) : ts[t].m_hash = hash
    THEN LET r == Type_instantiate(ts, CHOOSE t \in 1..Len(ts) : ts[t].m_hash = hash)
         IN IF r.res = "ok" THEN r ELSE [res |-> "unknown_type"]
    ELSE [res |-> "unknown_type"]

\* The objects a program can build: every property holds a value of its type,
\* a pointer property null or an object of a class inheriting the declared one
\* (Property::set_value allows inheritance).
RECURSIVE PropStates(_, _)
RECURSIVE ObjectsOf(_, _)
PropStates(ts, decls) ==
    IF decls = << >> THEN {<< >>}
    ELSE LET d == decls[1]
             vs == IF IsClassName(ts, d.type)
                   THEN {NullObject} \cup
                        UNION {ObjectsOf(ts, t) :
                                  t \in {u \in 1..Len(ts) :
                                            /\ ts[u].is_IClassType
                                            /\ IClassType_inherits(ts, u, TypeNamed(ts, d.type))}}
                   ELSE ValuesOf(d.type)
         IN {<<v>> \o rest : v \in vs, rest \in PropStates(ts, Tail(decls))}

ObjectsOf(ts, t) == {[type |-> t, props |-> ps] : ps \in PropStates(ts, ClassProperties(ts[t].m_name))}

Objects(ts) == UNION {ObjectsOf(ts, t) : t \in {u \in 1..Len(ts) : ts[u].is_IClassType}}

ReadOneBitLess(bits, pos, name) == BitStream_read(bits, pos, bitsizeof(name) - 1)

WriteWholeByte(bits, name, value) == bits \o ToBits(value, U32 \div 4)

\* PrimitiveTypeWriter<ValueT>::write_to(stream, value), ValueT integral.
PrimitiveTypeWriter_write_to(bits, name, value) == bits \o ToBits(value, bitsizeof(name))

\* PrimitiveTypeReader<ValueT>::read_from(stream, value), ValueT integral.
PrimitiveTypeReader_read_from(bits, pos, name) ==
    LET r == BitStream_read(bits, pos, bitsizeof(name))
    IN IF r.ok THEN [r EXCEPT !.value = AsValueT(name, @)] ELSE r

\* A property the serializer leaves out: WRITE_PUBLIC_ONLY and not PUBLIC.
Skipped(decl, flags) == ~decl.public /\ FlagIsSet(flags, WRITE_PUBLIC_ONLY)

\* The body_size field: the length in bytes of n bits.
ByteLength(n) == (n + 7) \div 8

\* The hash each descriptor has.
HashOf(ts) == [t \in 1..Len(ts) |-> ts[t].m_hash]

\* BinarySerializer::save_object / save_property: the object header (the null
\* bit; in file mode the type hash and the body size), then the properties in
\* declared order, a class-typed one as a nested object.
RECURSIVE save_object(_, _, _, _, _)
RECURSIVE save_properties(_, _, _, _, _, _)
save_object(ts, obj, is_file, flags, hashes) ==
    IF obj = NullObject THEN <<1>>
    ELSE LET body == save_properties(ts, obj, 1, is_file, flags, hashes)
         IN <<0>>
            \o (IF is_file
                THEN ToBits(hashes[obj.type], U32) \o ToBits(ByteLength(Len(body)), U32)
                ELSE << >>)
            \o body

save_properties(ts, obj, i, is_file, flags, hashes) ==
    LET decls == ClassProperties(ts[obj.type].m_name)
    IN IF i > Len(decls) THEN << >>
       ELSE (IF Skipped(decls[i], flags) THEN << >>
             ELSE IF IsClassName(ts, decls[i].type)
             THEN save_object(ts, obj.props[i], is_file, flags, hashes)
             ELSE PrimitiveTypeWriter_write_to(<< >>, decls[i].type, obj.props[i]))
            \o save_properties(ts, obj, i + 1, is_file, flags, hashes)

\* The compression codec is an external collaborator: a lossless transform
\* stands for it.
Deflate(bits) == [i \in 1..Len(bits) |-> 1 - bits[i]]

Inflate(bits) == [i \in 1..Len(bits) |-> 1 - bits[i]]

\* BinarySerializer::save(object, stream): the flags word, the compression
\* header and the transformed payload, the root object.
save(ts, obj, is_file, flags, hashes) ==
    LET body == save_object(ts, obj, is_file, flags, hashes)
    IN (IF FlagIsSet(flags, WRITE_SERIALIZER_FLAGS) THEN ToBits(flags, U32) ELSE << >>)
       \o (IF FlagIsSet(flags, COMPRESSED)
           THEN ToBits(Len(body), U32) \o Deflate(body)
           ELSE body)

\* How a load ended: res, the read position, whether dest was assigned, the
\* object, and the property whose nested header failed (0: the object's own).
Loaded(res, pos, made, obj, at) ==
    [res |-> res, pos |-> pos, made |-> made, obj |-> obj, at |-> at]

\* BinarySerializer::load_object / preload_object / load_property: the header,
\* the instantiation (by hash in file mode, of the known static type
\* otherwise), the properties in declared order, the size check.
RECURSIVE load_object(_, _, _, _, _, _)
RECURSIVE load_properties(_, _, _, _, _, _, _)
load_object(ts, bits, pos, static, is_file, flags) ==
    LET n == BitStream_read(bits, pos, 1)
    IN IF ~n.ok THEN Loaded("framing_error", pos, FALSE, NullObject, 0)
       ELSE IF n.value = 1 THEN Loaded("ok", n.pos, TRUE, NullObject, 0)
       ELSE
         LET h == BitStream_read(bits, n.pos, U32)
             z == BitStream_read(bits, h.pos, U32)
         IN IF is_file /\ (~h.ok \/ ~z.ok)
            THEN Loaded("framing_error", pos, FALSE, NullObject, 0)
            ELSE
              LET made == IF is_file THEN TypeSystem_instantiate(ts, h.value)
                          ELSE IF static = NULL THEN [res |-> "unknown_type"]
                          ELSE Type_instantiate(ts, static)
                  start == IF is_file THEN z.pos ELSE n.pos
              IN IF made.res # "ok"
                 THEN Loaded("unknown_type", pos, FALSE, NullObject, 0)
                 ELSE
                   LET r == load_properties(ts, made.obj, 1, bits, start, is_file, flags)
                   IN IF r.res # "ok" THEN r
                      ELSE IF is_file /\ ByteLength(r.pos - start) # z.value
                      THEN Loaded("framing_error", r.pos, TRUE, r.obj, 0)
                      ELSE r

load_properties(ts, obj, i, bits, pos, is_file, flags) ==
    LET decls == ClassProperties(ts[obj.type].m_name)
    IN IF i > Len(decls) THEN Loaded("ok", pos, TRUE, obj, 0)
       ELSE IF Skipped(decls[i], flags)
       THEN load_properties(ts, obj, i + 1, bits, pos, is_file, flags)
       ELSE IF IsClassName(ts, decls[i].type)
       THEN LET r == load_object(ts, bits, pos, TypeNamed(ts, decls[i].type), is_file, flags)
                set == IF r.made THEN [obj EXCEPT !.props[i] = r.obj] ELSE obj
            IN IF r.res # "ok" THEN Loaded(r.res, r.pos, TRUE, set, i)
               ELSE load_properties(ts, set, i + 1, bits, r.pos, is_file, flags)
       ELSE LET r == PrimitiveTypeReader_read_from(bits, pos, decls[i].type)
            IN IF ~r.ok THEN Loaded("framing_error", pos, TRUE, obj, 0)
               ELSE load_properties(ts, [obj EXCEPT !.props[i] = r.value], i + 1,
                                    bits, r.pos, is_file, flags)

\* BinarySerializer::load(dest, stream, size): the flags word and the
\* compression header when the flags say they are there, then the root object.
load(ts, bits, static, is_file, flags) ==
    LET f == IF FlagIsSet(flags, WRITE_SERIALIZER_FLAGS)
             THEN BitStream_read(bits, 0, U32)
             ELSE [ok |-> TRUE, pos |-> 0]
        c == BitStream_read(bits, f.pos, U32)
    IN IF ~f.ok THEN Loaded("framing_error", 0, FALSE, NullObject, 0)
       ELSE IF FlagIsSet(flags, COMPRESSED)
       THEN IF ~c.ok \/ c.value # Len(bits) - c.pos
            THEN Loaded("framing_error", f.pos, FALSE, NullObject, 0)
            ELSE load_object(ts, Inflate(SubSeq(bits, c.pos + 1, Len(bits))), 0,
                             static, is_file, flags)
       ELSE load_object(ts, bits, f.pos, static, is_file, flags)

\* The classes of an object and of the objects its properties point to.
TypesIn(ts, obj) ==
    LET decls == ClassProperties(ts[obj.type].m_name)
        nested == {i \in 1..Len(decls) : IsClassName(ts, decls[i].type)}
    IN {obj.type} \cup {obj.props[i].type : i \in {j \in nested : obj.props[j] # NullObject}}

SerCall(op, res, at) == [op |-> op, res |-> res, at |-> at]

NoStream == [bits |-> << >>, writer |-> "none"]

\* A serializer of either mode and any flags on the schema; nothing written
\* or loaded yet.
InitSer ==
    /\ types = Schema
    /\ ser \in [m_is_file : BOOLEAN, m_flags : FlagSets]
    /\ object = NullObject
    /\ stream = NoStream
    /\ dest = NullObject
    /\ slast = SerCall("none", "ok", 0)
    /\ tlast = [op |-> "none"]
    /\ IdleValue

\* serializer.save(obj, stream) on an empty stream.
Save(obj) ==
    /\ UNCHANGED <<valueVars, typeVars>>
    /\ stream = NoStream
    /\ object' = obj
    /\ stream' = [bits |-> save(types, obj, ser.m_is_file, ser.m_flags, HashOf(types)),
                  writer |-> "save"]
    /\ slast' = SerCall("save", "ok", 0)
    /\ UNCHANGED <<ser, dest>>

\* The stream arrives from a peer that saved obj in file mode with the same
\* flags, on a schema in which the class t has the hash h.
PeerSave(obj, t, h) ==
    /\ UNCHANGED <<valueVars, typeVars>>
    /\ stream = NoStream
    /\ ser.m_is_file
    /\ t \in TypesIn(types, obj)
    /\ object' = obj
    /\ stream' = [bits |-> save(types, obj, TRUE, ser.m_flags, [HashOf(types) EXCEPT ![t] = h]),
                  writer |-> "peer"]
    /\ slast' = SerCall("receive", "ok", 0)
    /\ UNCHANGED <<ser, dest>>

\* serializer.load(dest, stream, size) on the stream as written.
Load ==
    /\ UNCHANGED <<valueVars, typeVars>>
    /\ stream.writer # "none"
    /\ LET r == load(types, stream.bits, object.type, ser.m_is_file, ser.m_flags)
       IN /\ dest' = IF r.made THEN r.obj ELSE dest
          /\ slast' = SerCall("load", r.res, r.at)
    /\ UNCHANGED <<ser, object, stream>>

\* The caller takes a new, empty stream; dest keeps what it holds.
NewStream ==
    /\ UNCHANGED <<valueVars, typeVars>>
    /\ stream # NoStream
    /\ stream' = NoStream
    /\ object' = NullObject
    /\ slast' = SerCall("none", "ok", 0)
    /\ UNCHANGED <<ser, dest>>

\* The hashes no class-like descriptor of the schema owns: one never
\* registered, one registered for a primitive type.
ForeignHashes == {calculate_type_hash("W"), calculate_type_hash("u8")}

NextSer ==
    \/ \E o \in Objects(Schema) \cup {NullObject} : Save(o)
    \/ \E o \in Objects(Schema), t \in 1..Len(Schema), h \in ForeignHashes : PeerSave(o, t, h)
    \/ Load
    \/ NewStream

SpecSer == InitSer /\ [][NextSer]_vars

(***************************************************************************)
(* Properties of the binary serializer.                                    *)
(***************************************************************************)

ClearFlag(flags, f) == IF FlagIsSet(flags, f) THEN flags - f ELSE flags

\* The object with every non-public property, at every depth, at its default.
RECURSIVE PublicPart(_, _)
PublicPart(ts, obj) ==
    IF obj = NullObject THEN NullObject
    ELSE LET decls == ClassProperties(ts[obj.type].m_name)
         IN [type |-> obj.type,
             props |-> [i \in 1..Len(decls) |->
                           IF ~decls[i].public THEN DefaultOf(ts, decls[i])
                           ELSE IF IsClassName(ts, decls[i].type)
                           THEN PublicPart(ts, obj.props[i])
                           ELSE obj.props[i]]]

\* Every pointer property holds null or an object of exactly the declared class.
StaticallyTyped(ts, obj) ==
    \/ obj = NullObject
    \/ LET decls == ClassProperties(ts[obj.type].m_name)
       IN \A i \in 1..Len(decls) :
             (IsClassName(ts, decls[i].type) /\ obj.props[i] # NullObject)
                 => obj.props[i].type = TypeNamed(ts, decls[i].type)

LoadedWhatWasSaved == slast.op = "load" /\ stream.writer = "save"

RECURSIVE NonPublicDefault(_, _)
NonPublicDefault(ts, obj) ==
    \/ obj = NullObject
    \/ LET decls == ClassProperties(ts[obj.type].m_name)
       IN \A i \in 1..Len(decls) :
             IF ~decls[i].public THEN obj.props[i] = DefaultOf(ts, decls[i])
             ELSE IsClassName(ts, decls[i].type) => NonPublicDefault(ts, obj.props[i])

C10_FlagsWord ==
    stream.writer = "save"
        => LET rest == save(types, object, ser.m_is_file,
                            ClearFlag(ser.m_flags, WRITE_SERIALIZER_FLAGS), HashOf(types))
           IN IF FlagIsSet(ser.m_flags, WRITE_SERIALIZER_FLAGS)
              THEN /\ stream.bits = ToBits(ser.m_flags, U32) \o rest
                   /\ FromBits(SubSeq(stream.bits, 1, U32)) = ser.m_flags
              ELSE stream.bits = rest

C10_Witness ==
    /\ stream.writer = "save"
    /\ ser.m_flags = WRITE_SERIALIZER_FLAGS + WRITE_PUBLIC_ONLY + COMPRESSED
    /\ object.type = TypeNamed(types, "Y")
    /\ object.props = <<3, 200, 200>>
    /\ Len(stream.bits) > U32

-----------------------------------------------------------------------------
(***************************************************************************)
(* Copies, moves and assignments of Values (Value.h, lines 234-241)        *)
(***************************************************************************)

\* Bound of the ownership model: the Values, and the storage locations.
MaxOwners == 2

OwnSlots == 1..MaxOwners

\* A moved-from Value: valid, empty, owning nothing.
Emptied(v) == [v EXCEPT !.m_value_ptr = NULL, !.m_ptr_is_owned = FALSE]

\* Value::Value(const Value &that): a deep copy on new storage p when that
\* owns its storage, another reference to the same location otherwise.
Value_copy(that, x, p) ==
    IF that.m_ptr_is_owned
    THEN [val |-> [that EXCEPT !.m_value_ptr = p],
          alloc |-> TRUE,
          block |-> LiveBlock(TypeOfHash(that.m_type_hash), x, "value")]
    ELSE [val |-> that, alloc |-> FALSE]

\* Value::Value(Value &&that): the new Value takes that's pointer and
\* ownership, that is left empty.
Value_move(that) == [val |-> that, that |-> Emptied(that)]

\* The data a copy reads through that's pointer.
CopiedData(hp, v) ==
    IF v.m_value_ptr = NULL THEN DataOf(TypeOfHash(v.m_type_hash))
    ELSE ReadData(hp, v.m_value_ptr, TypeOfHash(v.m_type_hash))

\* A copy of an owning Value needs a storage location.
CanCopy(v, hp) == v.m_ptr_is_owned => HasFree(hp)

OwnCall(op, s) == Call(op, s, "", "", "ok", << >>, Nothing)

\* No Value, no storage, no registry.
InitOwn ==
    /\ s_caster_lookup = NoRegistry
    /\ values = [s \in OwnSlots |-> NoValue]
    /\ heap = [p \in OwnSlots |-> FreeBlock]
    /\ released = {}
    /\ vlast = OwnCall("none", 0)
    /\ IdleType
    /\ IdleSer

\* Value w(v): copy construction into a new Value.
Copy(s) ==
    /\ UNCHANGED <<typeVars, serVars>>
    /\ values[s].live
    /\ \E t \in DOMAIN values : ~values[t].live
    /\ CanCopy(values[s], heap)
    /\ \E x \in CopiedData(heap, values[s]) :
          LET t == FreeSlot(values)
              r == Value_copy(values[s], x, AllocPtr(heap))
          IN /\ values' = [values EXCEPT ![t] = r.val]
             /\ heap' = IF r.alloc THEN [heap EXCEPT ![r.val.m_value_ptr] = r.block] ELSE heap
             /\ vlast' = OwnCall("copy", t)
    /\ UNCHANGED <<s_caster_lookup, released>>

\* Value w(std::move(v)): move construction into a new Value.
Move(s) ==
    /\ UNCHANGED <<typeVars, serVars>>
    /\ values[s].live
    /\ \E t \in DOMAIN values : ~values[t].live
    /\ LET t == FreeSlot(values)
           r == Value_move(values[s])
       IN /\ values' = [values EXCEPT ![t] = r.val, ![s] = r.that]
          /\ vlast' = OwnCall("move", t)
    /\ released' = released \ {s}
    /\ UNCHANGED <<s_caster_lookup, heap>>

\* w = v: w releases the storage it owns, then copies v.
Assign(t, s) ==
    /\ UNCHANGED <<typeVars, serVars>>
    /\ t # s
    /\ values[t].live
    /\ values[s].live
    /\ LET hp == Value_destroy(values[t], heap)
       IN /\ CanCopy(values[s], hp)
          /\ \E x \in CopiedData(hp, values[s]) :
                LET r == Value_copy(values[s], x, AllocPtr(hp))
                IN /\ values' = [values EXCEPT ![t] = r.val]
                   /\ heap' = IF r.alloc THEN [hp EXCEPT ![r.val.m_value_ptr] = r.block] ELSE hp
    /\ vlast' = OwnCall("assign", t)
    /\ released' = released \ {t}
    /\ UNCHANGED s_caster_lookup

\* w = std::move(v): w releases the storage it owns, then takes v's.
MoveAssign(t, s) ==
    /\ UNCHANGED <<typeVars, serVars>>
    /\ t # s
    /\ values[t].live
    /\ values[s].live
    /\ LET r == Value_move(values[s])
       IN values' = [values EXCEPT ![t] = r.val, ![s] = r.that]
    /\ heap' = Value_destroy(values[t], heap)
    /\ vlast' = OwnCall("move_assign", t)
    /\ released' = released \ {t, s}
    /\ UNCHANGED s_caster_lookup

NextOwn ==
    \/ \E T \in CppTypes : \E x \in DataOf(T) : MakeValue(T, x)
    \/ \E T \in CppTypes, p \in OwnSlots : \E x \in DataOf(T) : MakeReference(T, p, x)
    \/ \E s \in OwnSlots : Copy(s)
    \/ \E s \in OwnSlots : Move(s)
    \/ \E t \in OwnSlots, s \in OwnSlots : Assign(t, s)
    \/ \E t \in OwnSlots, s \in OwnSlots : MoveAssign(t, s)
    \/ \E s \in OwnSlots, T \in CppTypes : Release(s, T)
    \/ \E s \in OwnSlots : Destroy(s)
    \/ \E p \in OwnSlots : CallerDelete(p)

SpecOwn == InitOwn /\ [][NextOwn]_vars

\* The live Values that own the storage location p.
OwnersOf(p) ==
    {s \in DOMAIN values : values[s].live /\ values[s].m_ptr_is_owned /\ values[s].m_value_ptr = p}

\* C11: through make_value, make_reference, copy, move, assignment, release
\* and destruction, a storage block allocated for an owning Value has exactly
\* one Value owning it until that Value releases it (never two owners, never
\* none), an owning Value never points at released storage or at storage
\* that is not a Value's; storage handed out by release<T>() or borrowed by
\* make_reference is released by no Value, and destroying a referencing
\* Value releases nothing.
C11_OwnedReleasedOnce ==
    /\ [](\A p \in DOMAIN heap :
            (heap[p].state = "live" /\ heap[p].owner = "value") => Cardinality(OwnersOf(p)) = 1)
    /\ [](\A s \in DOMAIN values :
            (values[s].live /\ values[s].m_ptr_is_owned)
                => /\ heap[values[s].m_value_ptr].state = "live"
                   /\ heap[values[s].m_value_ptr].owner = "value")
    /\ [][\A p \in DOMAIN heap :
            (heap[p].state = "live" /\ heap'[p].state = "free")
                => IF heap[p].owner = "value"
                   THEN /\ vlast'.op \in {"destroy", "assign", "move_assign"}
                        /\ OwnersOf(p) # {}
                   ELSE vlast'.op = "delete"]_vars
    /\ [][(vlast'.op = "destroy" /\ Value_is_reference(values[vlast'.slot])) => heap' = heap]_vars

\* An assignment has just deep-copied an owning Value: two Values own two
\* different live blocks.
C11_Witness ==
    /\ vlast.op = "assign"
    /\ \A s \in DOMAIN values : values[s].live /\ values[s].m_ptr_is_owned
    /\ \A s \in DOMAIN values, t \in DOMAIN values :
          s # t => values[s].m_value_ptr # values[t].m_value_ptr
    /\ \A p \in DOMAIN heap : heap[p].state = "live" /\ heap[p].owner = "value"

-----------------------------------------------------------------------------
(***************************************************************************)
(* IClassType::write_to / read_from, a property at a time                  *)
(***************************************************************************)

\* properties.begin() and ++it of the property list, in declaration order.
IteratorSkipsOne(it) == it + 2

iterator_next(it) == it + 1

\* it == properties.end().
AtEnd(ts, obj, it) == it > Len(ClassProperties(ts[obj.type].m_name))

\* The classes whose properties are all of primitive types.
FlatClasses(ts) ==
    {t \in 1..Len(ts) :
        /\ ts[t].is_IClassType
        /\ \A i \in 1..Len(ClassProperties(ts[t].m_name)) :
              ~IsClassName(ts, ClassProperties(ts[t].m_name)[i].type)}

\* it->write_value_to(stream): the declared type's writer on the property's value.
Property_write_value_to(ts, obj, it, bits) ==
    PrimitiveTypeWriter_write_to(bits, ClassProperties(ts[obj.type].m_name)[it].type,
                                 obj.props[it])

\* it->read_value_from(stream): the declared type's reader; the value and the
\* position after it.
Property_read_value_from(ts, obj, it, bits, pos) ==
    PrimitiveTypeReader_read_from(bits, pos, ClassProperties(ts[obj.type].m_name)[it].type)

\* Where a write_to or read_from call is: the operation, the iterator, the
\* properties visited so far and the read position of the stream.
Walk(op, it, order, pos) == [op |-> op, it |-> it, order |-> order, pos |-> pos]

InitWalk ==
    /\ types = Schema
    /\ tlast = [op |-> "none"]
    /\ ser = [idle |-> TRUE]
    /\ object = NullObject
    /\ dest = NullObject
    /\ stream = NoStream
    /\ slast = Walk("none", 0, << >>, 0)
    /\ IdleValue

\* type.write_to(stream, value) is called on an object of the class.
WriteTo(obj) ==
    /\ UNCHANGED <<valueVars, typeVars>>
    /\ slast.op = "none"
    /\ object' = obj
    /\ stream' = [bits |-> << >>, writer |-> "write_to"]
    /\ slast' = Walk("write_to", 1, << >>, 0)
    /\ UNCHANGED <<ser, dest>>

\* One turn of write_to's loop.
WriteValue ==
    /\ UNCHANGED <<valueVars, typeVars>>
    /\ slast.op = "write_to"
    /\ ~AtEnd(types, object, slast.it)
    /\ stream' = [stream EXCEPT !.bits = Property_write_value_to(types, object, slast.it, @)]
    /\ slast' = Walk("write_to", iterator_next(slast.it), Append(slast.order, slast.it), 0)
    /\ UNCHANGED <<ser, object, dest>>

\* write_to returns.
WriteReturn ==
    /\ UNCHANGED <<valueVars, typeVars>>
    /\ slast.op = "write_to"
    /\ AtEnd(types, object, slast.it)
    /\ slast' = Walk("written", slast.it, slast.order, 0)
    /\ UNCHANGED <<ser, object, stream, dest>>

\* type.read_from(stream, value) is called on an object of the same class,
\* whatever its properties hold.
ReadFrom(into) ==
    /\ UNCHANGED <<valueVars, typeVars>>
    /\ slast.op = "written"
    /\ into.type = object.type
    /\ dest' = into
    /\ slast' = Walk("read_from", 1, << >>, 0)
    /\ UNCHANGED <<ser, object, stream>>

\* One turn of read_from's loop.
ReadValue ==
    /\ UNCHANGED <<valueVars, typeVars>>
    /\ slast.op = "read_from"
    /\ ~AtEnd(types, dest, slast.it)
    /\ LET r == Property_read_value_from(types, dest, slast.it, stream.bits, slast.pos)
       IN /\ r.ok
          /\ dest' = [dest EXCEPT !.props[slast.it] = r.value]
          /\ slast' = Walk("read_from", iterator_next(slast.it), Append(slast.order, slast.it), r.pos)
    /\ UNCHANGED <<ser, object, stream>>

\* read_from returns.
ReadReturn ==
    /\ UNCHANGED <<valueVars, typeVars>>
    /\ slast.op = "read_from"
    /\ AtEnd(types, dest, slast.it)
    /\ slast' = Walk("read", slast.it, slast.order, slast.pos)
    /\ UNCHANGED <<ser, object, stream, dest>>

FlatObjects == UNION {ObjectsOf(Schema, t) : t \in FlatClasses(Schema)}

NextWalk ==
    \/ \E o \in FlatObjects : WriteTo(o)
    \/ WriteValue
    \/ WriteReturn
    \/ \E o \in FlatObjects : ReadFrom(o)
    \/ ReadValue
    \/ ReadReturn

SpecWalk == InitWalk /\ [][NextWalk]_vars

\* The bits the first n properties of obj take, in declaration order.
RECURSIVE BitsOfFirst(_, _, _)
BitsOfFirst(ts, obj, n) ==
    IF n = 0 THEN << >>
    ELSE BitsOfFirst(ts, obj, n - 1)
         \o ToBits(obj.props[n], bitsizeof(ClassProperties(ts[obj.type].m_name)[n].type))

\* C15: write_to visits the declared properties once each in declaration
\* order, so the stream holds their values in that order, and read_from
\* visits them once each in the same order, so that the k-th property read is
\* the k-th written: when read_from returns every property holds the value
\* written for it and the stream is read to its end.
C15_DeclarationOrder ==
    LET n == Len(ClassProperties(types[object.type].m_name))
    IN /\ slast.op \in {"write_to", "written", "read_from", "read"} =>
            /\ slast.order = [k \in 1..(slast.it - 1) |-> k]
            /\ slast.it <= n + 1
       /\ slast.op = "write_to" => stream.bits = BitsOfFirst(types, object, slast.it - 1)
       /\ slast.op \in {"written", "read"} => slast.it = n + 1
       /\ slast.op \in {"written", "read_from", "read"} =>
            stream.bits = BitsOfFirst(types, object, n)
       /\ slast.op \in {"read_from", "read"} =>
            /\ \A k \in 1..(slast.it - 1) : dest.props[k] = object.props[k]
            /\ slast.pos = Len(BitsOfFirst(types, object, slast.it - 1))
       /\ slast.op = "read" => dest = object /\ slast.pos = Len(stream.bits)

\* read_from has returned on a three-property object that held other values.
C15_Witness ==
    /\ slast.op = "read"
    /\ slast.order = <<1, 2, 3>>
    /\ object.props = <<3, 0, 200>>
    /\ dest = object

-----------------------------------------------------------------------------
(***************************************************************************)
(* The codec of the integral primitive types on a stream                   *)
(***************************************************************************)

\* Bound of the codec model: no write starts beyond this many bits.
MaxBits == 9

IntegralTypes == {"bui2", "u8", "i8"}

\* The values of each integral type the codec is run on: its extremes and
\* values in between.
IntegralValues(name) ==
    CASE name = "bui2" -> 0..3
      [] name = "u8" -> {0, 1, 200, 255}
      [] name = "i8" -> {-128, -1, 0, 127}

\* A write or read of the codec: the type, the value written, where in the
\* stream the value starts and ends, what was read and where the read ended.
CodecCall(op, type, value, start, end, got, pos) ==
    [op |-> op, type |-> type, value |-> value, start |-> start, end |-> end,
     got |-> got, pos |-> pos]

\* A stream that already holds some bits, so that values start at any bit.
InitCodec ==
    /\ types = Schema
    /\ tlast = [op |-> "none"]
    /\ ser = [idle |-> TRUE]
    /\ object = NullObject
    /\ dest = NullObject
    /\ stream \in {[bits |-> b, writer |-> "codec"] : b \in {<< >>, <<1>>, <<0, 1, 1>>}}
    /\ slast = CodecCall("none", "", 0, 0, 0, 0, 0)
    /\ IdleValue

\* PrimitiveTypeWriter<ValueT>::write_to(stream, value) at the stream's end.
WritePrimitive(name, value) ==
    /\ UNCHANGED <<valueVars, typeVars>>
    /\ Len(stream.bits) <= MaxBits
    /\ stream' = [stream EXCEPT !.bits = PrimitiveTypeWriter_write_to(@, name, value)]
    /\ slast' = CodecCall("write", name, value, Len(stream.bits), Len(stream'.bits), 0, 0)
    /\ UNCHANGED <<ser, object, dest>>

\* PrimitiveTypeReader<ValueT>::read_from(stream, value) where the last
\* value was written.
ReadPrimitive ==
    /\ UNCHANGED <<valueVars, typeVars>>
    /\ slast.op = "write"
    /\ LET r == PrimitiveTypeReader_read_from(stream.bits, slast.start, slast.type)
       IN /\ r.ok
          /\ slast' = [slast EXCEPT !.op = "read", !.got = r.value, !.pos = r.pos]
    /\ UNCHANGED <<ser, object, stream, dest>>

NextCodec ==
    \/ \E name \in IntegralTypes : \E value \in IntegralValues(name) : WritePrimitive(name, value)
    \/ ReadPrimitive

SpecCodec == InitCodec /\ [][NextCodec]_vars

\* C17: the writer of an integral type adds exactly bitsizeof<ValueT> bits
\* to the stream whatever the value, and the reader, started where the value
\* starts, returns the value written and stops where the writer stopped.
C17_FixedWidthCodec ==
    /\ slast.op \in {"write", "read"} =>
          /\ slast.end - slast.start = bitsizeof(slast.type)
          /\ slast.end = Len(stream.bits)
    /\ slast.op = "read" =>
          /\ slast.got = slast.value
          /\ slast.pos = slast.end

\* A negative int8_t written at a bit that is not a byte boundary has been read back.
C17_Witness ==
    /\ slast.op = "read"
    /\ slast.type = "i8"
    /\ slast.value = -128
    /\ slast.start % 8 = 3
    /\ slast.got = -128

====
